---------------------------- MODULE Spec2Model ----------------------------
(***************************************************************************)
(* The pool allocator of src/memory_manager.c as a state machine.          *)
(*                                                                         *)
(* The descriptor chain (struct memory_block linked through next, starting *)
(* at first_block) is a sequence of records [ptr, size, free]; a record's  *)
(* successor in the sequence is its next descriptor.  Pointers are integer *)
(* addresses: NULL is 0 and the pool buffer obtained by mem_init starts at *)
(* PoolBase.  The pool's bytes are the sequence mem, byte k of the pool at *)
(* address PoolBase + k - 1.  The system malloc is taken to succeed.       *)
(*                                                                         *)
(* Each public function is one action (it runs under memory_mutex from its *)
(* first to its last statement).  The caller's side is the set live of     *)
(* addresses it was handed and has not given back, and the record last of  *)
(* the most recent call: its name and what it returned.                    *)
(***************************************************************************)
EXTENDS Integers, Sequences, FiniteSets, TLC

\* Largest pool size handed to mem_init.
MaxPool == 3

\* Largest number of descriptors the chain is let grow to.
MaxBlocks == 4

\* The null pointer.
NULL == 0

\* Address of the first byte of the pool buffer (malloc's result in mem_init).
PoolBase == 1

\* Values a byte of the pool holds.
Bytes == {0, 1}

\* The one value every byte holds where the bytes are left out of account.
OneByte == {0}

\* Sizes a caller asks for.
Sizes == 0..MaxPool

\* Pool sizes a caller initialises with.
InitSizes == 1..MaxPool

\* Addresses a caller passes: NULL, every address of the pool, its end.
Addrs == NULL..(PoolBase + MaxPool)

VARIABLES
    memory_pool,    \* static char* memory_pool: NULL or PoolBase
    chain,          \* the descriptors from first_block, in next order
    mem,            \* the bytes of the pool buffer
    memory_mutex,   \* TRUE while memory_mutex is held
    fault,          \* TRUE once the process has died on an invalid access
    live,           \* addresses handed to the caller and not yet given back
    last,           \* the most recent call and its result
    head,           \* the caller's Node* head that the list functions work on
    nodes,          \* the Node structs of the list in the pool, by address
    out,            \* what the most recent call printed
    list_mutex,     \* TRUE while list_mutex is held
    issued,         \* the list_insert calls completed since list_init
    threads         \* each thread's position in the call it is executing

\* The state of src/linked_list.c and of the threads that call it.
list_vars == <<head, nodes, out, list_mutex, issued, threads>>

vars == <<memory_pool, chain, mem, memory_mutex, fault, live, last,
          head, nodes, out, list_mutex, issued, threads>>

\* What a call returned: the empty set for a call that returned nothing
\* (a void function, or a call that never returned), else the one value.
NoValue == {}

Call(op, ret) == [op |-> op, ret |-> ret]

-----------------------------------------------------------------------------
(* Descriptors and the chain *)

make_block(ptr, size, free) == [ptr |-> ptr, size |-> size, free |-> free]

RECURSIVE SumSizes(_)
SumSizes(c) == IF c = <<>> THEN 0 ELSE Head(c).size + SumSizes(Tail(c))

\* The size given to mem_init: the length of the buffer it allocated.
pool_size == Len(mem)

\* Index in mem of the byte at address a.
Idx(a) == a - PoolBase + 1

-----------------------------------------------------------------------------
(* no_lock_alloc *)

\* fits without the look at the free flag.
fits_used(b, size) == b.size >= size

\* The test of the scan loop: the descriptor is free and large enough.
fits(b, size) == b.free # 0 /\ b.size >= size

\* alloc_scan keeping on after a hit: the index of the last descriptor from
\* i on that fits, 0 when none does.
RECURSIVE alloc_scan_last(_, _, _)
alloc_scan_last(c, size, i) ==
    IF i > Len(c) THEN 0
    ELSE LET later == alloc_scan_last(c, size, i + 1)
         IN  IF later # 0 THEN later
             ELSE IF fits(c[i], size) THEN i ELSE 0

\* The loop of no_lock_alloc from descriptor i on: the index of the first
\* descriptor that fits, 0 when the loop runs off the end of the chain.
RECURSIVE alloc_scan(_, _, _)
alloc_scan(c, size, i) ==
    IF i > Len(c) THEN 0
    ELSE IF fits(c[i], size) THEN i
    ELSE alloc_scan(c, size, i + 1)

\* split_size with the subtraction forgotten: the new descriptor is given the
\* whole size of the descriptor that was split.
split_size_whole(cur_size, size) == cur_size

\* Size of the descriptor made for the bytes left over by a split.
split_size(cur_size, size) == cur_size - size

\* The body of the if: descriptor i becomes used and of the requested size,
\* and a new free descriptor for the rest is linked in right after it.
alloc_split(c, i, size) ==
    SubSeq(c, 1, i - 1)
    \o << [c[i] EXCEPT !.free = 0, !.size = size],
          make_block(c[i].ptr + size, split_size(c[i].size, size), 1) >>
    \o SubSeq(c, i + 1, Len(c))

no_lock_alloc(c, size) ==
    LET i == alloc_scan(c, size, 1)
    IN  IF i = 0 THEN [chain |-> c, ret |-> NULL]
        ELSE [chain |-> alloc_split(c, i, size), ret |-> c[i].ptr]

-----------------------------------------------------------------------------
(* no_lock_free *)

\* The scan loop of no_lock_free and of mem_resize: the index of the first
\* descriptor whose ptr is block, 0 when there is none.
RECURSIVE find_block(_, _, _)
find_block(c, block, i) ==
    IF i > Len(c) THEN 0
    ELSE IF c[i].ptr = block THEN i
    ELSE find_block(c, block, i + 1)

\* The body of the if: descriptor i is marked free and, when its successor
\* is free too, absorbs it.
free_merge(c, i) ==
    IF i < Len(c) /\ c[i + 1].free = 1
    THEN SubSeq(c, 1, i - 1)
         \o << [c[i] EXCEPT !.free = 1, !.size = c[i].size + c[i + 1].size] >>
         \o SubSeq(c, i + 2, Len(c))
    ELSE [c EXCEPT ![i].free = 1]

no_lock_free(c, block) ==
    LET i == find_block(c, block, 1)
    IN  IF i = 0 THEN c ELSE free_merge(c, i)

-----------------------------------------------------------------------------
(* memcpy within the pool *)

\* m after copying n bytes from address src to address dst.
memcpy(m, dst, src, n) ==
    [k \in 1..Len(m) |->
        IF k >= Idx(dst) /\ k < Idx(dst) + n
        THEN m[Idx(src) + (k - Idx(dst))]
        ELSE m[k]]

-----------------------------------------------------------------------------
(* mem_resize *)

\* resize_grow freeing block whether or not the allocation succeeded.
resize_grow_free_anyway(c, m, block, size, i) ==
    LET a == no_lock_alloc(c, size)
    IN  IF a.ret # NULL
        THEN [chain |-> no_lock_free(a.chain, block),
              mem   |-> memcpy(m, a.ret, block, c[i].size),
              ret   |-> a.ret]
        ELSE [chain |-> no_lock_free(c, block), mem |-> m, ret |-> NULL]

\* The growing path of mem_resize for the descriptor i found for block: a
\* new block is allocated while the old one is still in place; on success
\* the old descriptor's size worth of bytes is copied and block is freed.
\* (The allocation cannot pick descriptor i, which is smaller than size, so
\* current_block->size read after it is still c[i].size.)
resize_grow(c, m, block, size, i) ==
    LET a == no_lock_alloc(c, size)
    IN  IF a.ret # NULL
        THEN [chain |-> no_lock_free(a.chain, block),
              mem   |-> memcpy(m, a.ret, block, c[i].size),
              ret   |-> a.ret]
        ELSE [chain |-> c, mem |-> m, ret |-> NULL]

\* mem_resize when the scan found descriptor i for block.
resize_found(c, m, block, size, i) ==
    IF c[i].size >= size
    THEN [chain |-> c, mem |-> m, ret |-> block]
    ELSE resize_grow(c, m, block, size, i)

\* The caller's allocations after mem_resize(block, ...) returned ret: an
\* allocation that was moved is known by its new address.
resize_live(lv, block, ret) ==
    IF block \in lv /\ ret # NULL THEN (lv \ {block}) \cup {ret} ELSE lv

-----------------------------------------------------------------------------
(* The list's data *)

\* Most nodes a list is given room for.
MaxNodes == 3

\* Number of threads that call into the list and the allocator.
MaxThreads == 2

\* sizeof(Node): a uint16_t payload and a Node* next, padded to the
\* pointer's alignment on a 64-bit build.
NodeSize == 16

\* Payloads a caller stores.
Payloads == {1, 2}

Threads == 1..MaxThreads

\* A Node as it lies in the pool.
make_node(data, next) == [data |-> data, next |-> next]

\* No Node has been written into the pool.
NoNodes == [a \in {} |-> make_node(0, NULL)]

\* A thread that is in no call and holds no lock.
Idle ==
    [op |-> "none", pc |-> "idle", arg |-> 0, node |-> NULL, cur |-> NULL,
     held |-> {}]

\* The record of the list_insert calls: the payloads of the calls completed
\* since list_init, in the order they completed, as long as nothing but
\* list_insert has changed the list since (only flag is FALSE afterwards).
Inserts(only, vals) == [only |-> only, vals |-> vals]

-----------------------------------------------------------------------------
(* The state after the program is loaded: the globals are NULL, the locks  *)
(* are free (PTHREAD_MUTEX_INITIALIZER) and the caller has no list yet.    *)

Init ==
    /\ memory_pool = NULL
    /\ chain = <<>>
    /\ mem = <<>>
    /\ memory_mutex = FALSE
    /\ fault = FALSE
    /\ live = {}
    /\ last = Call("none", NoValue)
    /\ head = NULL
    /\ nodes = NoNodes
    /\ out = <<>>
    /\ list_mutex = FALSE
    /\ issued = Inserts(FALSE, <<>>)
    /\ threads = [t \in Threads |-> Idle]

-----------------------------------------------------------------------------
(* The public functions *)

\* mem_init(size): a fresh buffer and a chain of one free descriptor for
\* all of it, whatever was there before; what the caller held of an earlier
\* pool is no allocation of this one.  The buffer malloc hands out holds
\* unknown bytes, each some value of B.
mem_init(size, B) ==
    /\ ~fault
    /\ memory_pool' = PoolBase
    /\ chain' = << make_block(PoolBase, size, 1) >>
    /\ mem' \in [1..size -> B]
    /\ live' = {}
    /\ last' = Call("mem_init", NoValue)
    /\ UNCHANGED <<memory_mutex, fault>>
    /\ UNCHANGED list_vars

\* mem_alloc(size): lock, no_lock_alloc, unlock.
mem_alloc(size) ==
    LET a == no_lock_alloc(chain, size)
    IN  /\ ~fault
        /\ Len(a.chain) <= MaxBlocks
        /\ chain' = a.chain
        /\ live' = IF a.ret # NULL THEN live \cup {a.ret} ELSE live
        /\ last' = Call("mem_alloc", {a.ret})
        /\ UNCHANGED <<memory_pool, mem, memory_mutex, fault>>
        /\ UNCHANGED list_vars

\* mem_free(block): lock, no_lock_free, unlock.  It returns nothing.
mem_free(block) ==
    /\ ~fault
    /\ chain' = no_lock_free(chain, block)
    /\ live' = live \ {block}
    /\ last' = Call("mem_free", NoValue)
    /\ UNCHANGED <<memory_pool, mem, memory_mutex, fault>>
    /\ UNCHANGED list_vars

\* mem_resize(block, size) when the scan finds a descriptor for block.
mem_resize_found(block, size) ==
    LET i == find_block(chain, block, 1)
    IN  /\ ~fault
        /\ i # 0
        /\ LET r == resize_found(chain, mem, block, size, i)
           IN  /\ Len(r.chain) <= MaxBlocks
               /\ chain' = r.chain
               /\ mem' = r.mem
               /\ live' = resize_live(live, block, r.ret)
               /\ last' = Call("mem_resize", {r.ret})
        /\ UNCHANGED <<memory_pool, memory_mutex, fault>>
        /\ UNCHANGED list_vars

\* mem_resize(block, size) when the scan runs off the chain (always so
\* while there is no pool): current_block is NULL and the next statement
\* reads current_block->size through it.  The read through the null pointer
\* traps: the process dies there, the lock still held and nothing returned,
\* before size is looked at.
mem_resize_null(block) ==
    /\ ~fault
    /\ find_block(chain, block, 1) = 0
    /\ fault' = TRUE
    /\ memory_mutex' = TRUE
    /\ last' = Call("mem_resize", NoValue)
    /\ UNCHANGED <<memory_pool, chain, mem, live>>
    /\ UNCHANGED list_vars

\* mem_deinit(): the buffer is released and both globals are reset; every
\* allocation the caller held ends with the pool.
mem_deinit ==
    /\ ~fault
    /\ memory_pool' = NULL
    /\ chain' = <<>>
    /\ mem' = <<>>
    /\ live' = {}
    /\ last' = Call("mem_deinit", NoValue)
    /\ UNCHANGED <<memory_mutex, fault>>
    /\ UNCHANGED list_vars

\* The caller stores byte b at address a of a block it holds.
caller_store(a, b) ==
    /\ ~fault
    /\ \E i \in 1..Len(chain) :
          /\ chain[i].ptr \in live
          /\ chain[i].free = 0
          /\ a >= chain[i].ptr
          /\ a < chain[i].ptr + chain[i].size
    /\ mem[Idx(a)] # b
    /\ mem' = [mem EXCEPT ![Idx(a)] = b]
    /\ last' = Call("store", NoValue)
    /\ UNCHANGED <<memory_pool, chain, memory_mutex, fault, live>>
    /\ UNCHANGED list_vars

\* A call of mem_resize, whichever way it goes.
mem_resize(block, size) ==
    \/ mem_resize_found(block, size)
    \/ mem_resize_null(block)

-----------------------------------------------------------------------------
(* Spec: the allocator and a caller that calls anything with anything. *)

Next ==
    \/ \E size \in InitSizes : mem_init(size, Bytes)
    \/ \E size \in Sizes : mem_alloc(size)
    \/ \E block \in Addrs : mem_free(block)
    \/ \E block \in Addrs, size \in Sizes : mem_resize_found(block, size)
    \/ \E block \in Addrs : mem_resize_null(block)
    \/ mem_deinit
    \/ \E a \in Addrs, b \in Bytes : caller_store(a, b)

Spec == Init /\ [][Next]_vars

(* SpecLayout: the same allocator and caller with every byte of the pool   *)
(* equal.  No function of the allocator reads a byte of the pool except    *)
(* memcpy, which only copies it, so the descriptor chain and the values    *)
(* returned do not depend on the bytes; what is claimed of them alone is   *)
(* checked on this smaller state space.                                    *)

NextLayout ==
    \/ \E size \in InitSizes : mem_init(size, OneByte)
    \/ \E size \in Sizes : mem_alloc(size)
    \/ \E block \in Addrs : mem_free(block)
    \/ \E block \in Addrs, size \in Sizes : mem_resize_found(block, size)
    \/ \E block \in Addrs : mem_resize_null(block)
    \/ mem_deinit

SpecLayout == Init /\ [][NextLayout]_vars

-----------------------------------------------------------------------------
(* The list of src/linked_list.c: walking the chain of nodes *)

\* Pool sizes a caller gives list_init: room for one to MaxNodes nodes,
\* exactly or with a byte to spare.
ListPoolSizes == {n * NodeSize + r : n \in 1..MaxNodes, r \in {0, 1}}

\* Longest descriptor chain the list's calls are followed to.
ListBlocks == 2 * MaxNodes + 2

\* printf("%d", data): the decimal digits of the payload.
print_d(data) == ToString(data)

\* The addresses of at most n nodes from a on, each the next of the one
\* before, up to the node whose next is NULL.
RECURSIVE list_walk(_, _, _)
list_walk(a, nd, n) ==
    IF a = NULL \/ n = 0 \/ a \notin DOMAIN nd THEN <<>>
    ELSE <<a>> \o list_walk(nd[a].next, nd, n - 1)

\* The nodes a loop "current = *head; while (current != NULL) current =
\* current->next" visits, in order.  (A walk longer than the number of
\* nodes ever written has met a node twice; it is cut one node later.)
list_chain(h, nd) == list_walk(h, nd, Cardinality(DOMAIN nd) + 1)

\* The payloads of the nodes from head on.
list_values(h, nd) ==
    LET ch == list_chain(h, nd) IN [i \in 1..Len(ch) |-> nd[ch[i]].data]

\* The pool after *p = rec for a Node* p.
node_store(nd, p, rec) ==
    [a \in DOMAIN nd \cup {p} |-> IF a = p THEN rec ELSE nd[a]]

\* The pool after p->next = next.
set_next(nd, p, next) == node_store(nd, p, make_node(nd[p].data, next))

\* find_data going on to the end: index of the last node that holds data.
RECURSIVE find_data_last(_, _, _, _)
find_data_last(ch, nd, data, i) ==
    IF i > Len(ch) THEN 0
    ELSE LET later == find_data_last(ch, nd, data, i + 1)
         IN  IF later # 0 THEN later
             ELSE IF nd[ch[i]].data = data THEN i ELSE 0

\* Index in ch of the first node that holds data, 0 when none does.
RECURSIVE find_data(_, _, _, _)
find_data(ch, nd, data, i) ==
    IF i > Len(ch) THEN 0
    ELSE IF nd[ch[i]].data = data THEN i
    ELSE find_data(ch, nd, data, i + 1)

-----------------------------------------------------------------------------
(* list_insert *)

\* The test and the walk of list_insert: NULL when *head is NULL, else the
\* node whose next is NULL.
insert_find(h, nd) ==
    IF h = NULL THEN NULL
    ELSE LET ch == list_chain(h, nd) IN ch[Len(ch)]

\* insert_store that stores into *head whatever the list holds.
insert_store_head(h, nd, cur, node) == [head |-> node, nodes |-> nd]

\* The store that links node in: *head = node when the list was empty,
\* else current->next = node.
insert_store(h, nd, cur, node) ==
    IF cur = NULL THEN [head |-> node, nodes |-> nd]
    ELSE [head |-> h, nodes |-> set_next(nd, cur, node)]

\* list_insert once mem_alloc has returned node (not NULL).
insert_node(h, nd, node, data) ==
    LET nd1 == node_store(nd, node, make_node(data, NULL))
    IN  insert_store(h, nd1, insert_find(h, nd1), node)

-----------------------------------------------------------------------------
(* list_insert_after, list_insert_before *)

\* list_insert_after once mem_alloc has returned node, for prev_node not
\* NULL.
insert_after_node(nd, prev_node, node, data) ==
    LET nd1 == node_store(nd, node, make_node(data, nd[prev_node].next))
    IN  set_next(nd1, prev_node, node)

\* The walk of list_insert_before: index in ch of the first node whose next
\* is next_node, 0 when the walk runs off the chain.
RECURSIVE before_find(_, _, _, _)
before_find(ch, nd, next_node, i) ==
    IF i > Len(ch) THEN 0
    ELSE IF nd[ch[i]].next = next_node THEN i
    ELSE before_find(ch, nd, next_node, i + 1)

\* list_insert_before proceeds to its end: next_node is the head, or some
\* node of the chain has it as its next.
before_reaches(h, nd, next_node) ==
    \/ h = next_node
    \/ before_find(list_chain(h, nd), nd, next_node, 1) # 0

\* list_insert_before once mem_alloc has returned node, when the walk finds
\* next_node.
insert_before_node(h, nd, next_node, node, data) ==
    LET nd1 == node_store(nd, node, make_node(data, next_node))
        ch  == list_chain(h, nd1)
    IN  IF h = next_node THEN [head |-> node, nodes |-> nd1]
        ELSE [head  |-> h,
              nodes |-> set_next(nd1, ch[before_find(ch, nd1, next_node, 1)], node)]

-----------------------------------------------------------------------------
(* list_delete, list_search, list_count_nodes *)

\* The pool without the Node at p: the block has been handed to mem_free
\* and what its bytes hold is read no more.
node_drop(nd, p) == [a \in DOMAIN nd \ {p} |-> nd[a]]

\* The unlinking of list_delete for node i of the chain ch: its
\* predecessor's next and, when it is the head, *head take its next; the
\* node is then given to mem_free.
delete_unlink(h, nd, ch, i) ==
    LET current == ch[i]
        nd1 == IF i > 1 THEN set_next(nd, ch[i - 1], nd[current].next) ELSE nd
    IN  [head  |-> IF current = h THEN nd[current].next ELSE h,
         nodes |-> node_drop(nd1, current)]

\* What list_search returns.
search_node(h, nd, data) ==
    LET ch == list_chain(h, nd)
        i  == find_data(ch, nd, data, 1)
    IN  IF i = 0 THEN NULL ELSE ch[i]

\* What list_count_nodes returns.
count_nodes(h, nd) == Len(list_chain(h, nd))

-----------------------------------------------------------------------------
(* list_display_range *)

\* The while loop of list_display_range from start_node on: what it prints
\* and the node it stops at.  It reads start_node->data, so it dies when it
\* is entered with start_node NULL.
RECURSIVE display_loop(_, _, _, _)
display_loop(start_node, nd, end_node, n) ==
    IF start_node = end_node \/ n = 0
    THEN [out |-> <<>>, at |-> start_node, fault |-> FALSE]
    ELSE IF start_node = NULL
    THEN [out |-> <<>>, at |-> start_node, fault |-> TRUE]
    ELSE IF nd[start_node].next = NULL
    THEN [out |-> <<print_d(nd[start_node].data)>>, at |-> start_node, fault |-> FALSE]
    ELSE LET r == display_loop(nd[start_node].next, nd, end_node, n - 1)
         IN  [out   |-> <<print_d(nd[start_node].data), ", ">> \o r.out,
              at    |-> r.at,
              fault |-> r.fault]

\* list_display_range: what it prints and whether it dies on the way.  After
\* the loop it reads end_node->data when it stopped at end_node, also when
\* end_node is NULL.
display_range(h, nd, start_node, end_node) ==
    LET s == IF start_node = NULL THEN h ELSE start_node
        l == display_loop(s, nd, end_node, Cardinality(DOMAIN nd) + 1)
    IN  IF l.fault THEN [out |-> <<"[">> \o l.out, fault |-> TRUE]
        ELSE IF l.at = end_node
        THEN IF end_node = NULL
             THEN [out |-> <<"[">> \o l.out, fault |-> TRUE]
             ELSE [out |-> <<"[">> \o l.out \o <<print_d(nd[end_node].data), "]">>,
                   fault |-> FALSE]
        ELSE [out |-> <<"[">> \o l.out \o <<"]">>, fault |-> FALSE]

-----------------------------------------------------------------------------
(* The functions of src/linked_list.c, each called by a single thread and  *)
(* followed from its first to its last statement.  A store or a read       *)
(* through a NULL Node* traps: the process dies there with list_mutex      *)
(* still locked.                                                           *)

\* Node pointers a caller passes: NULL and every address a node can lie at,
\* whether a node of the list lies there or not.
NodeRefs == {NULL} \cup {PoolBase + k * NodeSize : k \in 0..(MaxNodes - 1)}

\* The nodes of the list, and NULL.
ListRefs == {NULL} \cup {list_chain(head, nodes)[i] : i \in 1..count_nodes(head, nodes)}

\* What the bytes of a fresh block's next field may hold before it is
\* written.
Unwritten == NodeRefs

\* The record of inserts after one more list_insert(data) has completed.
inserted(iss, data) ==
    IF iss.only THEN Inserts(TRUE, Append(iss.vals, data)) ELSE iss

\* The call dies inside list function op.
list_trap(op) ==
    /\ fault' = TRUE
    /\ list_mutex' = TRUE
    /\ last' = Call(op, NoValue)

\* list_init(&head, size): mem_init(size), *head = NULL.
list_init(size) ==
    /\ ~fault
    /\ memory_pool' = PoolBase
    /\ chain' = << make_block(PoolBase, size, 1) >>
    /\ mem' \in [1..size -> OneByte]
    /\ live' = {}
    /\ head' = NULL
    /\ nodes' = NoNodes
    /\ out' = <<>>
    /\ issued' = Inserts(TRUE, <<>>)
    /\ last' = Call("list_init", NoValue)
    /\ UNCHANGED <<memory_mutex, fault, list_mutex, threads>>

\* list_insert(&head, data) when mem_alloc returns a block.
list_insert_ok(data) ==
    LET a == no_lock_alloc(chain, NodeSize)
    IN  /\ ~fault
        /\ a.ret # NULL
        /\ Len(a.chain) <= ListBlocks
        /\ LET r == insert_node(head, nodes, a.ret, data)
           IN  head' = r.head /\ nodes' = r.nodes
        /\ chain' = a.chain
        /\ live' = live \cup {a.ret}
        /\ out' = <<>>
        /\ issued' = inserted(issued, data)
        /\ last' = Call("list_insert", NoValue)
        /\ UNCHANGED <<memory_pool, mem, memory_mutex, fault, list_mutex, threads>>

\* list_insert(&head, data) when mem_alloc returns NULL: node->data = data
\* stores through the null pointer.
list_insert_null(data) ==
    /\ ~fault
    /\ no_lock_alloc(chain, NodeSize).ret = NULL
    /\ list_trap("list_insert")
    /\ out' = <<>>
    /\ UNCHANGED <<memory_pool, chain, mem, memory_mutex, live, head, nodes,
                   issued, threads>>

list_insert(data) == list_insert_ok(data) \/ list_insert_null(data)

\* list_insert_after(prev_node, data) for a node prev_node, when mem_alloc
\* returns a block.
list_insert_after_ok(prev_node, data) ==
    LET a == no_lock_alloc(chain, NodeSize)
    IN  /\ ~fault
        /\ prev_node # NULL
        /\ a.ret # NULL
        /\ Len(a.chain) <= ListBlocks
        /\ nodes' = insert_after_node(nodes, prev_node, a.ret, data)
        /\ chain' = a.chain
        /\ live' = live \cup {a.ret}
        /\ out' = <<>>
        /\ issued' = Inserts(FALSE, <<>>)
        /\ last' = Call("list_insert_after", NoValue)
        /\ UNCHANGED <<memory_pool, mem, memory_mutex, fault, head, list_mutex,
                       threads>>

\* list_insert_after(NULL, data) when mem_alloc returns a block: the block
\* is taken and its data written, then prev_node->next reads through the
\* null pointer.
list_insert_after_null(data) ==
    LET a == no_lock_alloc(chain, NodeSize)
    IN  /\ ~fault
        /\ a.ret # NULL
        /\ Len(a.chain) <= ListBlocks
        /\ \E g \in Unwritten :
              nodes' = node_store(nodes, a.ret, make_node(data, g))
        /\ chain' = a.chain
        /\ live' = live \cup {a.ret}
        /\ list_trap("list_insert_after")
        /\ out' = <<>>
        /\ UNCHANGED <<memory_pool, mem, memory_mutex, head, issued, threads>>

\* A list function that allocates a node, other than list_insert, when
\* mem_alloc returns NULL: node->data = data stores through the null
\* pointer.
list_alloc_null(op) ==
    /\ ~fault
    /\ no_lock_alloc(chain, NodeSize).ret = NULL
    /\ list_trap(op)
    /\ out' = <<>>
    /\ UNCHANGED <<memory_pool, chain, mem, memory_mutex, live, head, nodes,
                   issued, threads>>

list_insert_after(prev_node, data) ==
    \/ list_insert_after_ok(prev_node, data)
    \/ (prev_node = NULL /\ list_insert_after_null(data))
    \/ list_alloc_null("list_insert_after")

\* list_insert_before(&head, next_node, data) when mem_alloc returns a
\* block and next_node is the head or the next of a node of the chain.
list_insert_before_ok(next_node, data) ==
    LET a == no_lock_alloc(chain, NodeSize)
    IN  /\ ~fault
        /\ a.ret # NULL
        /\ Len(a.chain) <= ListBlocks
        /\ before_reaches(head, nodes, next_node)
        /\ LET r == insert_before_node(head, nodes, next_node, a.ret, data)
           IN  head' = r.head /\ nodes' = r.nodes
        /\ chain' = a.chain
        /\ live' = live \cup {a.ret}
        /\ out' = <<>>
        /\ issued' = Inserts(FALSE, <<>>)
        /\ last' = Call("list_insert_before", NoValue)
        /\ UNCHANGED <<memory_pool, mem, memory_mutex, fault, list_mutex, threads>>

\* list_insert_before(&head, next_node, data) when the walk runs off the
\* chain without meeting next_node: the new node is written, then
\* current->next reads through the null pointer.
list_insert_before_lost(next_node, data) ==
    LET a == no_lock_alloc(chain, NodeSize)
    IN  /\ ~fault
        /\ a.ret # NULL
        /\ Len(a.chain) <= ListBlocks
        /\ ~before_reaches(head, nodes, next_node)
        /\ nodes' = node_store(nodes, a.ret, make_node(data, next_node))
        /\ chain' = a.chain
        /\ live' = live \cup {a.ret}
        /\ list_trap("list_insert_before")
        /\ out' = <<>>
        /\ UNCHANGED <<memory_pool, mem, memory_mutex, head, issued, threads>>

list_insert_before(next_node, data) ==
    \/ list_insert_before_ok(next_node, data)
    \/ list_insert_before_lost(next_node, data)
    \/ list_alloc_null("list_insert_before")

\* list_delete(&head, data): the first node holding data is unlinked and
\* handed to mem_free; nothing happens when no node holds it.
list_delete(data) ==
    LET ch == list_chain(head, nodes)
        i  == find_data(ch, nodes, data, 1)
    IN  /\ ~fault
        /\ IF i = 0
           THEN UNCHANGED <<head, nodes, chain, live>>
           ELSE LET r == delete_unlink(head, nodes, ch, i)
                IN  /\ head' = r.head
                    /\ nodes' = r.nodes
                    /\ chain' = no_lock_free(chain, ch[i])
                    /\ live' = live \ {ch[i]}
        /\ out' = <<>>
        /\ issued' = Inserts(FALSE, <<>>)
        /\ last' = Call("list_delete", NoValue)
        /\ UNCHANGED <<memory_pool, mem, memory_mutex, fault, list_mutex, threads>>

\* list_search(&head, data): the first node holding data, or 0 after
\* printing that there is none.
list_search(data) ==
    LET r == search_node(head, nodes, data)
    IN  /\ ~fault
        /\ out' = IF r = NULL THEN <<"data not in list">> ELSE <<>>
        /\ last' = Call("list_search", {r})
        /\ UNCHANGED <<memory_pool, chain, mem, memory_mutex, fault, live, head,
                       nodes, list_mutex, issued, threads>>

\* list_display_range(&head, start_node, end_node).
list_display_range(start_node, end_node) ==
    LET r == display_range(head, nodes, start_node, end_node)
    IN  /\ ~fault
        /\ out' = r.out
        /\ IF r.fault
           THEN list_trap("list_display_range")
           ELSE /\ last' = Call("list_display_range", NoValue)
                /\ UNCHANGED <<fault, list_mutex>>
        /\ UNCHANGED <<memory_pool, chain, mem, memory_mutex, live, head, nodes,
                       issued, threads>>

\* list_display(&head): list_display_range(head, NULL, NULL).
list_display ==
    LET r == display_range(head, nodes, NULL, NULL)
    IN  /\ ~fault
        /\ out' = r.out
        /\ IF r.fault
           THEN list_trap("list_display")
           ELSE /\ last' = Call("list_display", NoValue)
                /\ UNCHANGED <<fault, list_mutex>>
        /\ UNCHANGED <<memory_pool, chain, mem, memory_mutex, live, head, nodes,
                       issued, threads>>

\* list_count_nodes(&head).
list_count_nodes ==
    /\ ~fault
    /\ out' = <<>>
    /\ last' = Call("list_count_nodes", {count_nodes(head, nodes)})
    /\ UNCHANGED <<memory_pool, chain, mem, memory_mutex, fault, live, head,
                   nodes, list_mutex, issued, threads>>

\* list_cleanup(&head): every node of the chain is handed to mem_free, *head
\* is set to NULL and mem_deinit drops the pool and the descriptor chain
\* with it.
list_cleanup ==
    /\ ~fault
    /\ head' = NULL
    /\ memory_pool' = NULL
    /\ chain' = <<>>
    /\ mem' = <<>>
    /\ live' = {}
    /\ nodes' = NoNodes
    /\ out' = <<>>
    /\ issued' = Inserts(FALSE, <<>>)
    /\ last' = Call("list_cleanup", NoValue)
    /\ UNCHANGED <<memory_mutex, fault, list_mutex, threads>>

-----------------------------------------------------------------------------
(* SpecList: one thread calling the list's functions with anything. *)

NextList ==
    \/ \E size \in ListPoolSizes : list_init(size)
    \/ \E data \in Payloads : list_insert_ok(data)
    \/ \E data \in Payloads : list_insert_null(data)
    \/ \E prev_node \in ListRefs, data \in Payloads :
          list_insert_after_ok(prev_node, data)
    \/ \E data \in Payloads : list_insert_after_null(data)
    \/ \E next_node \in NodeRefs, data \in Payloads :
          list_insert_before_ok(next_node, data)
    \/ \E next_node \in NodeRefs, data \in Payloads :
          list_insert_before_lost(next_node, data)
    \/ \E op \in {"list_insert_after", "list_insert_before"} : list_alloc_null(op)
    \/ \E data \in Payloads : list_delete(data)
    \/ \E data \in Payloads : list_search(data)
    \/ \E start_node, end_node \in ListRefs : list_display_range(start_node, end_node)
    \/ list_display
    \/ list_count_nodes
    \/ list_cleanup

SpecList == Init /\ [][NextList]_vars

(* SpecCalls: one thread that changes the list and keeps to what the       *)
(* functions ask of their caller: it inserts while the pool has a block    *)
(* for the node, after a node of the list, and before a node of the list   *)
(* or NULL.  Every call of it returns.                                     *)

NextCalls ==
    \/ \E size \in ListPoolSizes : list_init(size)
    \/ \E data \in Payloads : list_insert_ok(data)
    \/ \E prev_node \in ListRefs, data \in Payloads :
          list_insert_after_ok(prev_node, data)
    \/ \E next_node \in ListRefs, data \in Payloads :
          list_insert_before_ok(next_node, data)
    \/ \E data \in Payloads : list_delete(data)
    \/ list_count_nodes
    \/ list_cleanup

SpecCalls == Init /\ [][NextCalls]_vars

(* SpecInsertDelete: one thread that calls list_init, list_insert and      *)
(* list_delete only.                                                       *)

NextInsertDelete ==
    \/ \E size \in ListPoolSizes : list_init(size)
    \/ \E data \in Payloads : list_insert_ok(data)
    \/ \E data \in Payloads : list_insert_null(data)
    \/ \E data \in Payloads : list_delete(data)

SpecInsertDelete == Init /\ [][NextInsertDelete]_vars

-----------------------------------------------------------------------------
(* Threads.  A thread is idle or inside one call; while it is inside one,  *)
(* its record holds the function (op), where in it the thread stands (pc), *)
(* the call's arguments and locals, and the mutexes it has locked.  A step *)
(* of a thread runs from one pthread_mutex_lock to the next: what lies     *)
(* between two of them is done under a lock or touches nothing shared.     *)
(*   pc = "list_lock": at the pthread_mutex_lock(&list_mutex) of op        *)
(*   pc = "mem_lock":  at the pthread_mutex_lock(&memory_mutex) of the     *)
(*                     allocator function that op is or has called         *)
(*   pc = "mem_body":  past it, memory_mutex locked                        *)
(*   pc = "store":     list_insert before it links the node in             *)
(*   pc = "mem_init":  mem_init between its two statements                 *)

\* pthread_mutex_lock returns at once whatever the mutex's state.
lockable_any(mutex) == TRUE

\* pthread_mutex_lock(&mutex) returns when the mutex is not locked.
lockable(mutex) == ~mutex

\* pthread_mutex_unlock that leaves the mutex locked.
unlock_none(held, mutex) == held

\* The mutexes a thread has locked after pthread_mutex_unlock(&mutex).
unlock(held, mutex) == held \ {mutex}

\* Thread t in call op at pc.
in(t, op, pc) == threads[t].op = op /\ threads[t].pc = pc

\* Thread t goes on as rec.
become(t, rec) == threads' = [threads EXCEPT ![t] = rec]

\* The two mutexes are locked exactly when some thread has them locked.
locks(thr) ==
    /\ memory_mutex' = (\E u \in Threads : "memory_mutex" \in thr[u].held)
    /\ list_mutex' = (\E u \in Threads : "list_mutex" \in thr[u].held)

\* Thread t returns from its call with result ret after unlocking the
\* mutexes of the set unlocked.
RECURSIVE unlock_all(_, _)
unlock_all(held, unlocked) ==
    IF unlocked = {} THEN held
    ELSE LET m == CHOOSE x \in unlocked : TRUE
         IN  unlock_all(unlock(held, m), unlocked \ {m})

return(t, ret, unlocked) ==
    /\ become(t, [Idle EXCEPT !.held = unlock_all(threads[t].held, unlocked)])
    /\ locks(threads')
    /\ last' = Call(threads[t].op, ret)

\* Thread t dies inside its call, holding what it holds.
trap(t) ==
    /\ fault' = TRUE
    /\ last' = Call(threads[t].op, NoValue)

\* The bytes from a on, n of them, lie in the pool buffer.
in_pool(m, a, n) == n = 0 \/ (Idx(a) >= 1 /\ Idx(a) + n - 1 <= Len(m))

AllIdle == \A t \in Threads : threads[t] = Idle

-----------------------------------------------------------------------------
(* The allocator's functions, called by thread t *)

\* mem_init(size), first statement: memory_pool = malloc(size).  No mutex is
\* locked.
mem_init_malloc(t, size) ==
    /\ ~fault
    /\ threads[t] = Idle
    /\ memory_pool' = PoolBase
    /\ mem' \in [1..size -> OneByte]
    /\ become(t, [Idle EXCEPT !.op = "mem_init", !.pc = "mem_init", !.arg = size])
    /\ UNCHANGED <<chain, memory_mutex, fault, live, last, head, nodes, out,
                   list_mutex, issued>>

\* mem_init(size), second statement: first_block = make_block(memory_pool,
\* size, 1, NULL), with memory_pool as it is by then.
mem_init_block(t) ==
    /\ ~fault
    /\ in(t, "mem_init", "mem_init")
    /\ chain' = << make_block(memory_pool, threads[t].arg, 1) >>
    /\ live' = {}
    /\ become(t, Idle)
    /\ last' = Call("mem_init", NoValue)
    /\ UNCHANGED <<memory_pool, mem, memory_mutex, fault, head, nodes, out,
                   list_mutex, issued>>

\* Thread t calls allocator function op with (block, size) and gets past
\* its pthread_mutex_lock(&memory_mutex).
mem_lock(t, op, block, size) ==
    /\ ~fault
    /\ threads[t] = Idle
    /\ lockable(memory_mutex)
    /\ become(t, [Idle EXCEPT !.op = op, !.pc = "mem_body", !.arg = size,
                              !.cur = block, !.held = {"memory_mutex"}])
    /\ locks(threads')
    /\ UNCHANGED <<memory_pool, chain, mem, fault, live, last, head, nodes, out,
                   issued>>

\* mem_alloc(size) past the lock: no_lock_alloc, unlock, return.
mem_alloc_body(t) ==
    LET a == no_lock_alloc(chain, threads[t].arg)
    IN  /\ ~fault
        /\ in(t, "mem_alloc", "mem_body")
        /\ chain' = a.chain
        /\ live' = IF a.ret # NULL THEN live \cup {a.ret} ELSE live
        /\ return(t, {a.ret}, {"memory_mutex"})
        /\ UNCHANGED <<memory_pool, mem, fault, head, nodes, out, issued>>

\* mem_free(block) past the lock: no_lock_free, unlock, return.
mem_free_body(t) ==
    /\ ~fault
    /\ in(t, "mem_free", "mem_body")
    /\ chain' = no_lock_free(chain, threads[t].cur)
    /\ live' = live \ {threads[t].cur}
    /\ return(t, NoValue, {"memory_mutex"})
    /\ UNCHANGED <<memory_pool, mem, fault, head, nodes, out, issued>>

\* mem_resize(block, size) past the lock, when it returns: the scan finds a
\* descriptor, and what memcpy copies lies in the pool.
mem_resize_body(t) ==
    LET block == threads[t].cur
        size  == threads[t].arg
        i     == find_block(chain, block, 1)
    IN  /\ ~fault
        /\ in(t, "mem_resize", "mem_body")
        /\ i # 0
        /\ LET a == no_lock_alloc(chain, size)
               moves == chain[i].size < size /\ a.ret # NULL
           IN  /\ moves => /\ in_pool(mem, a.ret, chain[i].size)
                           /\ in_pool(mem, block, chain[i].size)
               /\ LET r == resize_found(chain, mem, block, size, i)
                  IN  /\ chain' = r.chain
                      /\ mem' = r.mem
                      /\ live' = resize_live(live, block, r.ret)
                      /\ return(t, {r.ret}, {"memory_mutex"})
        /\ UNCHANGED <<memory_pool, fault, head, nodes, out, issued>>

\* mem_resize(block, size) past the lock, when it dies: the scan runs off
\* the chain and current_block->size reads through the null pointer, or
\* memcpy is given bytes outside the pool buffer (a chain that mem_init has
\* made for no buffer).
mem_resize_trap(t) ==
    LET block == threads[t].cur
        size  == threads[t].arg
        i     == find_block(chain, block, 1)
    IN  /\ ~fault
        /\ in(t, "mem_resize", "mem_body")
        /\ \/ i = 0
           \/ /\ i # 0
              /\ chain[i].size < size
              /\ LET a == no_lock_alloc(chain, size)
                 IN  /\ a.ret # NULL
                     /\ ~ ( /\ in_pool(mem, a.ret, chain[i].size)
                            /\ in_pool(mem, block, chain[i].size) )
        /\ trap(t)
        /\ UNCHANGED <<memory_pool, chain, mem, memory_mutex, live, head, nodes,
                       out, list_mutex, issued, threads>>

\* mem_deinit() past the lock.
mem_deinit_body(t) ==
    /\ ~fault
    /\ in(t, "mem_deinit", "mem_body")
    /\ memory_pool' = NULL
    /\ chain' = <<>>
    /\ mem' = <<>>
    /\ live' = {}
    /\ return(t, NoValue, {"memory_mutex"})
    /\ UNCHANGED <<fault, head, nodes, out, issued>>

-----------------------------------------------------------------------------
(* SpecRace: threads that call the allocator's five functions with         *)
(* anything, at any time.                                                  *)

NextRace ==
    \E t \in Threads :
        \/ mem_init_malloc(t, MaxPool)
        \/ mem_init_block(t)
        \/ \E size \in Sizes :
              Len(chain) < MaxBlocks /\ mem_lock(t, "mem_alloc", NULL, size)
        \/ \E block \in Addrs : mem_lock(t, "mem_free", block, 0)
        \/ \E block \in Addrs, size \in Sizes :
              Len(chain) < MaxBlocks /\ mem_lock(t, "mem_resize", block, size)
        \/ mem_lock(t, "mem_deinit", NULL, 0)
        \/ mem_alloc_body(t)
        \/ mem_free_body(t)
        \/ mem_resize_body(t)
        \/ mem_resize_trap(t)
        \/ mem_deinit_body(t)

SpecRace == Init /\ [][NextRace]_vars

-----------------------------------------------------------------------------
(* The list's functions, called by thread t *)

\* The allocated blocks that are no node of the list and that no thread is
\* about to hand to mem_free: what threads have got from mem_alloc
\* themselves.
RawBlocks ==
    live \ (DOMAIN nodes \cup {threads[u].node : u \in Threads})

\* Thread t calls list function op with payload data and stands at its
\* pthread_mutex_lock(&list_mutex).
list_call(t, op, data) ==
    /\ ~fault
    /\ threads[t] = Idle
    /\ become(t, [Idle EXCEPT !.op = op, !.pc = "list_lock", !.arg = data])
    /\ UNCHANGED <<memory_pool, chain, mem, memory_mutex, fault, live, last,
                   head, nodes, out, list_mutex, issued>>

\* list_insert, list_insert_after(ref, ..) and list_insert_before(.., ref,
\* ..) get past the lock and reach the lock of mem_alloc.  The caller
\* passes a node of the list as prev_node, a node of the list or NULL as
\* next_node.
list_node_lock(t, ref) ==
    /\ ~fault
    /\ threads[t].pc = "list_lock"
    /\ \/ threads[t].op = "list_insert" /\ ref = NULL
       \/ threads[t].op = "list_insert_after" /\ ref # NULL
       \/ threads[t].op = "list_insert_before"
    /\ lockable(list_mutex)
    /\ become(t, [threads[t] EXCEPT !.pc = "mem_lock", !.cur = ref,
                                    !.held = {"list_mutex"}])
    /\ locks(threads')
    /\ UNCHANGED <<memory_pool, chain, mem, fault, live, last, head, nodes, out,
                   issued>>

\* A list function that has called an allocator function gets past the
\* allocator's pthread_mutex_lock(&memory_mutex).
list_mem_lock(t) ==
    /\ ~fault
    /\ threads[t].pc = "mem_lock"
    /\ lockable(memory_mutex)
    /\ become(t, [threads[t] EXCEPT !.pc = "mem_body",
                                    !.held = @ \cup {"memory_mutex"}])
    /\ locks(threads')
    /\ UNCHANGED <<memory_pool, chain, mem, fault, live, last, head, nodes, out,
                   issued>>

\* list_insert inside mem_alloc, which returns a block: memory_mutex is
\* unlocked, the node is written and the place to link it at is found.
list_insert_body(t) ==
    LET a == no_lock_alloc(chain, NodeSize)
    IN  /\ ~fault
        /\ in(t, "list_insert", "mem_body")
        /\ a.ret # NULL
        /\ chain' = a.chain
        /\ live' = live \cup {a.ret}
        /\ nodes' = node_store(nodes, a.ret, make_node(threads[t].arg, NULL))
        /\ become(t, [threads[t] EXCEPT
                        !.pc = "store", !.node = a.ret,
                        !.cur = insert_find(head, nodes'),
                        !.held = unlock(@, "memory_mutex")])
        /\ locks(threads')
        /\ UNCHANGED <<memory_pool, mem, fault, last, head, out, issued>>

\* list_insert links the node in, unlocks list_mutex and returns.
list_insert_store(t) ==
    /\ ~fault
    /\ in(t, "list_insert", "store")
    /\ LET r == insert_store(head, nodes, threads[t].cur, threads[t].node)
       IN  head' = r.head /\ nodes' = r.nodes
    /\ issued' = inserted(issued, threads[t].arg)
    /\ out' = <<>>
    /\ return(t, NoValue, {"list_mutex"})
    /\ UNCHANGED <<memory_pool, chain, mem, fault, live>>

\* A list function inside mem_alloc, which returns NULL: memory_mutex is
\* unlocked and node->data = data stores through the null pointer.
list_node_null(t) ==
    /\ ~fault
    /\ threads[t].op \in {"list_insert", "list_insert_after", "list_insert_before"}
    /\ threads[t].pc = "mem_body"
    /\ no_lock_alloc(chain, NodeSize).ret = NULL
    /\ become(t, [threads[t] EXCEPT !.held = unlock(@, "memory_mutex")])
    /\ locks(threads')
    /\ trap(t)
    /\ UNCHANGED <<memory_pool, chain, mem, live, head, nodes, out, issued>>

\* list_insert_after inside mem_alloc, which returns a block: the node is
\* written and linked in behind prev_node, both mutexes are unlocked.
list_insert_after_body(t) ==
    LET a == no_lock_alloc(chain, NodeSize)
    IN  /\ ~fault
        /\ in(t, "list_insert_after", "mem_body")
        /\ a.ret # NULL
        /\ chain' = a.chain
        /\ live' = live \cup {a.ret}
        /\ nodes' = insert_after_node(nodes, threads[t].cur, a.ret, threads[t].arg)
        /\ issued' = Inserts(FALSE, <<>>)
        /\ out' = <<>>
        /\ return(t, NoValue, {"memory_mutex", "list_mutex"})
        /\ UNCHANGED <<memory_pool, mem, fault, head>>

\* list_insert_before inside mem_alloc, which returns a block: the node is
\* written and linked in ahead of next_node, both mutexes are unlocked.
list_insert_before_body(t) ==
    LET a == no_lock_alloc(chain, NodeSize)
    IN  /\ ~fault
        /\ in(t, "list_insert_before", "mem_body")
        /\ a.ret # NULL
        /\ before_reaches(head, nodes, threads[t].cur)
        /\ LET r == insert_before_node(head, nodes, threads[t].cur, a.ret,
                                       threads[t].arg)
           IN  head' = r.head /\ nodes' = r.nodes
        /\ chain' = a.chain
        /\ live' = live \cup {a.ret}
        /\ issued' = Inserts(FALSE, <<>>)
        /\ out' = <<>>
        /\ return(t, NoValue, {"memory_mutex", "list_mutex"})
        /\ UNCHANGED <<memory_pool, mem, fault>>

\* list_delete gets past the lock and finds no node that holds data: it
\* unlocks and returns.
list_delete_miss(t) ==
    /\ ~fault
    /\ in(t, "list_delete", "list_lock")
    /\ lockable(list_mutex)
    /\ find_data(list_chain(head, nodes), nodes, threads[t].arg, 1) = 0
    /\ issued' = Inserts(FALSE, <<>>)
    /\ out' = <<>>
    /\ return(t, NoValue, {"list_mutex"})
    /\ UNCHANGED <<memory_pool, chain, mem, fault, live, head, nodes>>

\* list_delete gets past the lock, finds the node, unlinks it and reaches
\* the lock of mem_free.
list_delete_unlink(t) ==
    LET ch == list_chain(head, nodes)
        i  == find_data(ch, nodes, threads[t].arg, 1)
    IN  /\ ~fault
        /\ in(t, "list_delete", "list_lock")
        /\ lockable(list_mutex)
        /\ i # 0
        /\ LET r == delete_unlink(head, nodes, ch, i)
           IN  head' = r.head /\ nodes' = r.nodes
        /\ issued' = Inserts(FALSE, <<>>)
        /\ become(t, [threads[t] EXCEPT !.pc = "mem_lock", !.node = ch[i],
                                        !.held = {"list_mutex"}])
        /\ locks(threads')
        /\ UNCHANGED <<memory_pool, chain, mem, fault, live, last, out>>

\* list_delete inside mem_free: the node's block is freed, both mutexes are
\* unlocked.
list_delete_free(t) ==
    /\ ~fault
    /\ in(t, "list_delete", "mem_body")
    /\ chain' = no_lock_free(chain, threads[t].node)
    /\ live' = live \ {threads[t].node}
    /\ out' = <<>>
    /\ return(t, NoValue, {"memory_mutex", "list_mutex"})
    /\ UNCHANGED <<memory_pool, mem, fault, head, nodes, issued>>

\* list_search from lock to unlock.
list_search_run(t) ==
    LET r == search_node(head, nodes, threads[t].arg)
    IN  /\ ~fault
        /\ in(t, "list_search", "list_lock")
        /\ lockable(list_mutex)
        /\ out' = IF r = NULL THEN <<"data not in list">> ELSE <<>>
        /\ return(t, {r}, {"list_mutex"})
        /\ UNCHANGED <<memory_pool, chain, mem, fault, live, head, nodes, issued>>

\* list_count_nodes from lock to unlock.
list_count_nodes_run(t) ==
    /\ ~fault
    /\ in(t, "list_count_nodes", "list_lock")
    /\ lockable(list_mutex)
    /\ out' = <<>>
    /\ return(t, {count_nodes(head, nodes)}, {"list_mutex"})
    /\ UNCHANGED <<memory_pool, chain, mem, fault, live, head, nodes, issued>>

\* list_display from lock to unlock, or to where it dies with list_mutex
\* locked.
list_display_run(t) ==
    LET r == display_range(head, nodes, NULL, NULL)
    IN  /\ ~fault
        /\ in(t, "list_display", "list_lock")
        /\ lockable(list_mutex)
        /\ out' = r.out
        /\ IF r.fault
           THEN /\ become(t, [threads[t] EXCEPT !.held = {"list_mutex"}])
                /\ locks(threads')
                /\ trap(t)
           ELSE /\ return(t, NoValue, {"list_mutex"})
                /\ UNCHANGED fault
        /\ UNCHANGED <<memory_pool, chain, mem, live, head, nodes, issued>>

\* list_cleanup gets past the lock and reaches the lock of the first
\* mem_free, or that of mem_deinit when the list is empty (node NULL).
list_cleanup_lock(t) ==
    /\ ~fault
    /\ in(t, "list_cleanup", "list_lock")
    /\ lockable(list_mutex)
    /\ become(t, [threads[t] EXCEPT
                    !.pc = "mem_lock", !.node = head,
                    !.cur = IF head = NULL THEN NULL ELSE nodes[head].next,
                    !.held = {"list_mutex"}])
    /\ locks(threads')
    /\ head' = IF head = NULL THEN NULL ELSE head
    /\ issued' = Inserts(FALSE, <<>>)
    /\ UNCHANGED <<memory_pool, chain, mem, fault, live, last, nodes, out>>

\* list_cleanup inside mem_free(current): the block is freed, memory_mutex
\* unlocked, and the loop goes on to the next node or, after the last one,
\* sets *head = NULL and calls mem_deinit.
list_cleanup_free(t) ==
    LET current == threads[t].node
        next    == threads[t].cur
    IN  /\ ~fault
        /\ in(t, "list_cleanup", "mem_body")
        /\ current # NULL
        /\ chain' = no_lock_free(chain, current)
        /\ live' = live \ {current}
        /\ nodes' = node_drop(nodes, current)
        /\ head' = IF next = NULL THEN NULL ELSE head
        /\ become(t, [threads[t] EXCEPT
                        !.pc = "mem_lock", !.node = next,
                        !.cur = IF next = NULL THEN NULL ELSE nodes[next].next,
                        !.held = unlock(@, "memory_mutex")])
        /\ locks(threads')
        /\ UNCHANGED <<memory_pool, mem, fault, last, out, issued>>

\* list_cleanup inside mem_deinit: the pool is dropped, both mutexes are
\* unlocked.
list_cleanup_deinit(t) ==
    /\ ~fault
    /\ in(t, "list_cleanup", "mem_body")
    /\ threads[t].node = NULL
    /\ memory_pool' = NULL
    /\ chain' = <<>>
    /\ mem' = <<>>
    /\ live' = {}
    /\ nodes' = NoNodes
    /\ out' = <<>>
    /\ return(t, NoValue, {"memory_mutex", "list_mutex"})
    /\ UNCHANGED <<fault, head, issued>>

-----------------------------------------------------------------------------
(* SpecThreads: threads that share one list.  One of them has called       *)
(* list_init before any other is inside a call; then each calls the list's *)
(* functions, and mem_alloc, mem_free and mem_resize for blocks of its     *)
(* own, at any time.  The pool holds two nodes, all calls pass the same   *)
(* payload and a thread asks for a block of its own only while no such     *)
(* block is allocated: the locks, not the values, are what this            *)
(* specification is about.                                                 *)

ListOps ==
    {"list_insert", "list_insert_after", "list_insert_before", "list_delete",
     "list_search", "list_count_nodes", "list_display", "list_cleanup"}

NextThreads ==
    \/ AllIdle /\ list_init(2 * NodeSize)
    \/ \E t \in Threads :
        \/ \E op \in ListOps : list_call(t, op, 1)
        \/ \E ref \in ListRefs : list_node_lock(t, ref)
        \/ list_mem_lock(t)
        \/ list_insert_body(t)
        \/ list_insert_store(t)
        \/ list_node_null(t)
        \/ list_insert_after_body(t)
        \/ list_insert_before_body(t)
        \/ list_delete_miss(t)
        \/ list_delete_unlink(t)
        \/ list_delete_free(t)
        \/ list_search_run(t)
        \/ list_count_nodes_run(t)
        \/ list_display_run(t)
        \/ list_cleanup_lock(t)
        \/ list_cleanup_free(t)
        \/ list_cleanup_deinit(t)
        \/ RawBlocks = {} /\ mem_lock(t, "mem_alloc", NULL, NodeSize)
        \/ \E block \in RawBlocks : mem_lock(t, "mem_free", block, 0)
        \/ \E block \in RawBlocks, size \in {NodeSize, 2 * NodeSize} :
              mem_lock(t, "mem_resize", block, size)
        \/ mem_alloc_body(t)
        \/ mem_free_body(t)
        \/ mem_resize_body(t)

SpecThreads == Init /\ [][NextThreads]_vars

-----------------------------------------------------------------------------
(* SpecInserts: threads that call list_insert on one list at the same      *)
(* time.  The pool that list_init has set up holds MaxNodes nodes and the  *)
(* threads issue no more calls than that; list_count_nodes is called when  *)
(* every thread has returned.                                              *)

\* The list_insert calls that threads are inside of.
Inserting == {t \in Threads : threads[t].op = "list_insert"}

list_insert_call(t, data) ==
    /\ memory_pool # NULL
    /\ Len(issued.vals) + Cardinality(Inserting) < MaxNodes
    /\ list_call(t, "list_insert", data)

NextInserts ==
    \/ AllIdle /\ list_init(MaxNodes * NodeSize)
    \/ AllIdle /\ list_count_nodes
    \/ \E t \in Threads :
        \/ \E data \in Payloads : list_insert_call(t, data)
        \/ list_node_lock(t, NULL)
        \/ list_mem_lock(t)
        \/ list_insert_body(t)
        \/ list_insert_store(t)

SpecInserts == Init /\ [][NextInserts]_vars

-----------------------------------------------------------------------------
(* Type correctness *)

TypeOK ==
    /\ memory_pool \in {NULL, PoolBase}
    /\ memory_mutex \in BOOLEAN
    /\ list_mutex \in BOOLEAN
    /\ fault \in BOOLEAN
    /\ Len(chain) <= (IF MaxBlocks > ListBlocks THEN MaxBlocks ELSE ListBlocks)
    /\ \A i \in 1..Len(chain) :
          /\ chain[i].ptr \in Nat
          /\ chain[i].size \in Nat
          /\ chain[i].free \in {0, 1}
    /\ \A i \in 1..Len(mem) : mem[i] \in Bytes
    /\ live \subseteq Nat \ {NULL}
    /\ head \in NodeRefs
    /\ DOMAIN nodes \subseteq NodeRefs \ {NULL}
    /\ \A a \in DOMAIN nodes :
          nodes[a].data \in Payloads /\ nodes[a].next \in NodeRefs
    /\ \A t \in Threads :
          /\ threads[t].pc \in {"idle", "list_lock", "mem_lock", "mem_body",
                                 "store", "mem_init"}
          /\ threads[t].held \subseteq {"list_mutex", "memory_mutex"}

-----------------------------------------------------------------------------
(* Notions the claims are stated with *)

\* The indices of the descriptors whose address is a.
At(c, a) == {i \in 1..Len(c) : c[i].ptr = a}

\* The indices of the used descriptors at address a: what backs an
\* allocation the caller knows by a.
UsedAt(c, a) == {i \in At(c, a) : c[i].free = 0}

\* The indices of the free descriptors of at least the given size.
FreeFits(c, size) == {i \in 1..Len(c) : c[i].free # 0 /\ c[i].size >= size}

\* The indices of the used descriptors whose bytes include address a.
BackedBy(c, a) ==
    {k \in 1..Len(c) : c[k].free = 0 /\ c[k].ptr <= a /\ a < c[k].ptr + c[k].size}

\* The sequence s without its element i.
Without(s, i) == SubSeq(s, 1, i - 1) \o SubSeq(s, i + 1, Len(s))

\* Index of node p in the chain ch, 0 when it is not in it.
IndexOf(ch, p) ==
    IF \E i \in 1..Len(ch) : ch[i] = p
    THEN CHOOSE i \in 1..Len(ch) : ch[i] = p
    ELSE 0

\* The text of a list of payloads: the numbers in brackets, a comma and a
\* blank between two of them.
RECURSIVE Listed(_)
Listed(v) ==
    IF v = <<>> THEN <<>>
    ELSE IF Len(v) = 1 THEN <<ToString(v[1])>>
    ELSE <<ToString(v[1]), ", ">> \o Listed(Tail(v))

Bracketed(v) == <<"[">> \o Listed(v) \o <<"]">>

\* Thread t is inside an allocator function it has called, between its
\* accesses to the pool pointer and the descriptor chain.
InAllocator(t) ==
    /\ threads[t].op \in {"mem_init", "mem_alloc", "mem_free", "mem_resize",
                          "mem_deinit"}
    /\ threads[t].pc \in {"mem_init", "mem_body"}

\* c holds one free descriptor at lo that spans n bytes or more, and none
\* at hi.
\* Thread t has requested a mutex that another thread holds.
Blocked(t) ==
    \/ threads[t].pc = "list_lock" /\ list_mutex
    \/ threads[t].pc = "mem_lock" /\ memory_mutex

\* The mutex thread t has requested.
Awaited(t) ==
    IF threads[t].pc = "list_lock" THEN "list_mutex" ELSE "memory_mutex"

\* Some thread that can take a step holds the mutex t waits for, or holds
\* the mutex that the holder of t's mutex waits for.
Released(t) ==
    \E u \in Threads :
        /\ Awaited(t) \in threads[u].held
        /\ \/ ~Blocked(u)
           \/ \E v \in Threads : Awaited(u) \in threads[v].held /\ ~Blocked(v)

MergedAt(
c, lo, hi, n) ==
    /\ At(c, hi) = {}
    /\ \E k \in At(c, lo) : c[k].free = 1 /\ c[k].size >= n

\* The size of the descriptor at lo in c.
SizeAt(c, lo) == c[CHOOSE k \in At(c, lo) : TRUE].size

-----------------------------------------------------------------------------
(* C1: after mem_init(size) and any calls of mem_alloc, mem_free and       *)
(* mem_resize, with any sizes and addresses, the sizes of the descriptors  *)
(* of the chain add up to the size given to mem_init.                      *)

C1_SumOfSizes == memory_pool # NULL => SumSizes(chain) = pool_size

\* A chain that has been split and freed into: a free descriptor ahead of a
\* used one, after a free.
C1_Witness ==
    /\ memory_pool # NULL
    /\ last.op = "mem_free"
    /\ Len(chain) >= 3
    /\ \E i \in 1..(Len(chain) - 1) :
          chain[i].free = 1 /\ chain[i].size > 0 /\ chain[i + 1].free = 0

-----------------------------------------------------------------------------
(* C2: in every reachable state each descriptor's address plus its size is *)
(* its successor's address, and no two descriptors of the chain have the   *)
(* same address, also after an exact-fit allocation.                       *)

C2_ContiguousDistinct ==
    /\ \A i \in 1..(Len(chain) - 1) :
          chain[i].ptr + chain[i].size = chain[i + 1].ptr
    /\ \A i, j \in 1..Len(chain) :
          i # j => chain[i].ptr # chain[j].ptr

-----------------------------------------------------------------------------
(* C3: every address returned by mem_alloc or mem_resize and not yet given *)
(* to mem_free is the address of exactly one descriptor of the chain, and  *)
(* that descriptor is marked used (so no address is held by two live       *)
(* allocations at once).                                                   *)

C3_LiveExactlyOneUsed ==
    \A a \in live :
        /\ Cardinality(At(chain, a)) = 1
        /\ \A i \in At(chain, a) : chain[i].free = 0

-----------------------------------------------------------------------------
(* C4: mem_alloc(size) returns the address of the first descriptor in      *)
(* chain order that is free and of at least the requested size, marks it   *)
(* used, cuts it to exactly that size and links the rest in as its free    *)
(* successor; when no descriptor qualifies it returns NULL and the chain   *)
(* is as it was.                                                           *)

C4_FirstFit ==
    [][\A size \in Sizes :
          (last'.op = "mem_alloc" /\ mem_alloc(size)) =>
             LET F == FreeFits(chain, size)
             IN  IF F = {}
                 THEN last'.ret = {NULL} /\ chain' = chain
                 ELSE LET i == CHOOSE k \in F : \A j \in F : k <= j
                      IN  /\ last'.ret = {chain[i].ptr}
                          /\ Len(chain') = Len(chain) + 1
                          /\ chain'[i] = [ptr |-> chain[i].ptr, size |-> size, free |-> 0]
                          /\ chain'[i + 1] = [ptr  |-> chain[i].ptr + size,
                                              size |-> chain[i].size - size,
                                              free |-> 1]
                          /\ \A j \in 1..(i - 1) : chain'[j] = chain[j]
                          /\ \A j \in (i + 1)..Len(chain) : chain'[j + 1] = chain[j]
      ]_vars

\* An allocation that passed over a free descriptor too small for it: the
\* block just returned lies behind a free descriptor, and a later free one
\* remains.
C4_Witness ==
    /\ last.op = "mem_alloc"
    /\ last.ret # {NULL}
    /\ \E i, j, k \in 1..Len(chain) :
          /\ i < j /\ j < k
          /\ chain[i].free = 1
          /\ chain[j].free = 0 /\ chain[j].ptr \in last.ret /\ chain[j].size > chain[i].size
          /\ chain[k].free = 1

-----------------------------------------------------------------------------
(* C5: when two chain-adjacent allocated blocks have both been freed, in   *)
(* either order, the chain holds one free descriptor for the two (its size *)
(* at least their sum), and mem_alloc of exactly that size then returns    *)
(* the lower of the two addresses.                                         *)

C5_MergedEitherOrder ==
    \A i \in 1..(Len(chain) - 1) :
        LET lo == chain[i]
            hi == chain[i + 1]
        IN  ( /\ lo.free = 0 /\ hi.free = 0
              /\ lo.ptr \in live /\ hi.ptr \in live
              /\ At(chain, lo.ptr) = {i} /\ At(chain, hi.ptr) = {i + 1} )
            => \A first \in {lo.ptr, hi.ptr} :
                  LET second == IF first = lo.ptr THEN hi.ptr ELSE lo.ptr
                      c2 == no_lock_free(no_lock_free(chain, first), second)
                  IN  /\ MergedAt(c2, lo.ptr, hi.ptr, lo.size + hi.size)
                      /\ no_lock_alloc(c2, SizeAt(c2, lo.ptr)).ret = lo.ptr

-----------------------------------------------------------------------------
(* C6: mem_resize(addr, s) on a live allocation whose descriptor has size  *)
(* s or more returns addr and leaves the whole chain and the bytes of the  *)
(* pool as they were.                                                      *)

C6_ResizeInPlace ==
    [][\A block \in Addrs, size \in Sizes :
          ( /\ last'.op = "mem_resize"
            /\ block \in live
            /\ \E i \in UsedAt(chain, block) : chain[i].size >= size
            /\ mem_resize(block, size) )
          => /\ last'.ret = {block}
             /\ chain' = chain
             /\ mem' = mem
      ]_vars

-----------------------------------------------------------------------------
(* C7: mem_resize(addr, s) on a live allocation of size old_size < s, when *)
(* a free descriptor of size s or more exists, returns an address other    *)
(* than addr whose first old_size bytes are the old block's, and then the  *)
(* descriptor that backed addr is free, open to a later mem_alloc of       *)
(* old_size or less.                                                       *)

C7_ResizeMoves ==
    [][\A block \in Addrs, size \in Sizes :
          \A i \in UsedAt(chain, block) :
             ( /\ last'.op = "mem_resize"
               /\ block \in live
               /\ chain[i].size < size
               /\ FreeFits(chain, size) # {}
               /\ mem_resize(block, size) )
             => \E r \in Addrs \ {NULL, block} :
                   /\ last'.ret = {r}
                   /\ \A k \in 0..(chain[i].size - 1) :
                         mem'[Idx(r) + k] = mem[Idx(block) + k]
                   /\ UsedAt(chain', block) = {}
                   /\ \E j \in At(chain', block) :
                         chain'[j].free = 1 /\ chain'[j].size >= chain[i].size
      ]_vars

-----------------------------------------------------------------------------
(* C8: when mem_resize(addr, s) has to grow a live allocation and no free  *)
(* descriptor has size s or more, it returns NULL and nothing has changed: *)
(* the block's descriptor, the rest of the chain, the bytes of the pool;   *)
(* the lock is released.                                                   *)

C8_ResizeExhausted ==
    [][\A block \in Addrs, size \in Sizes :
          ( /\ last'.op = "mem_resize"
            /\ block \in live
            /\ \E i \in UsedAt(chain, block) : chain[i].size < size
            /\ FreeFits(chain, size) = {}
            /\ mem_resize(block, size) )
          => /\ last'.ret = {NULL}
             /\ chain' = chain
             /\ mem' = mem
             /\ live' = live
             /\ ~fault' /\ ~memory_mutex'
      ]_vars

\* A resize that failed for want of room: NULL came back, and a live block
\* is there that no free descriptor is larger than.
C8_Witness ==
    /\ last.op = "mem_resize"
    /\ last.ret = {NULL}
    /\ ~fault
    /\ \E i \in 1..Len(chain) :
          /\ chain[i].free = 0 /\ chain[i].ptr \in live /\ chain[i].size > 0
          /\ FreeFits(chain, chain[i].size + 1) = {}

-----------------------------------------------------------------------------
(* C9: mem_resize(addr, s) with an addr that is no descriptor's address    *)
(* (so any call while there is no pool) reports the failure by its result: *)
(* it does not fault, it releases the lock, the chain is as it was.        *)

C9_ResizeNotFound ==
    [][\A block \in Addrs, size \in Sizes :
          ( /\ last'.op = "mem_resize"
            /\ At(chain, block) = {}
            /\ mem_resize(block, size) )
          => /\ ~fault'
             /\ ~memory_mutex'
             /\ chain' = chain
             /\ last'.ret = {NULL}
      ]_vars

-----------------------------------------------------------------------------
(* C10: mem_free(addr) with an addr that is no descriptor's address leaves *)
(* the chain as it was and hands the caller an outcome (BlockNotFound)     *)
(* that a successful free does not give.                                   *)

C10_FreeNotFound ==
    [][\A block \in Addrs :
          ( /\ last'.op = "mem_free"
            /\ At(chain, block) = {}
            /\ mem_free(block) )
          => /\ chain' = chain
             /\ last'.ret # NoValue
      ]_vars

-----------------------------------------------------------------------------
(* C14: after list_init and N list_insert calls with nothing else done to  *)
(* the list in between (the pool having room for each node), the chain     *)
(* from head holds the N inserted payloads in the order of the calls, and  *)
(* list_count_nodes returns N.                                             *)

C14_InsertOrder ==
    issued.only =>
        /\ list_values(head, nodes) = issued.vals
        /\ last.op = "list_count_nodes" => last.ret = {Len(issued.vals)}

\* list_count_nodes has just answered for a list of MaxNodes inserted
\* nodes that do not all hold the same payload.
C14_Witness ==
    /\ issued.only
    /\ last.op = "list_count_nodes"
    /\ Len(issued.vals) = MaxNodes
    /\ issued.vals[1] # issued.vals[MaxNodes]

-----------------------------------------------------------------------------
(* C15: list_delete(v) takes out the first node in chain order that holds  *)
(* v and no other: the chain afterwards is the chain before without that   *)
(* node, every other node holds what it held, and the count is one less;   *)
(* when no node holds v, head, chain and count are as they were.           *)

C15_DeleteFirst ==
    [][\A data \in Payloads :
          (last'.op = "list_delete" /\ list_delete(data)) =>
             LET ch == list_chain(head, nodes)
                 M  == {i \in 1..Len(ch) : nodes[ch[i]].data = data}
             IN  IF M = {}
                 THEN /\ head' = head
                      /\ list_chain(head', nodes') = ch
                      /\ list_values(head', nodes') = list_values(head, nodes)
                      /\ count_nodes(head', nodes') = count_nodes(head, nodes)
                 ELSE LET i == CHOOSE k \in M : \A j \in M : k <= j
                      IN  /\ list_chain(head', nodes') = Without(ch, i)
                          /\ list_values(head', nodes') =
                                Without(list_values(head, nodes), i)
                          /\ count_nodes(head', nodes') = count_nodes(head, nodes) - 1
      ]_vars

\* A delete has just left a list of two or more nodes whose first node
\* holds what another node behind it holds too.
C15_Witness ==
    /\ last.op = "list_delete"
    /\ LET v == list_values(head, nodes)
       IN  /\ Len(v) >= 2
           /\ \E j \in 2..Len(v) : v[j] = v[1]

-----------------------------------------------------------------------------
(* C18: after any calls of list_insert, list_insert_after,                 *)
(* list_insert_before (before a node of the list or NULL) and list_delete, *)
(* the chain from head meets no node twice and ends in NULL, head is NULL  *)
(* exactly when the list has no node, and no two nodes of the chain are    *)
(* backed by the same descriptor: each is backed by one used descriptor of *)
(* its own.                                                                *)

C18_ChainWellFormed ==
    LET ch == list_chain(head, nodes)
    IN  /\ \A i, j \in 1..Len(ch) : i # j => ch[i] # ch[j]
        /\ \A i \in 1..Len(ch) :
              nodes[ch[i]].next = IF i < Len(ch) THEN ch[i + 1] ELSE NULL
        /\ head = NULL <=> DOMAIN nodes = {}
        /\ head = NULL <=> ch = <<>>
        /\ head # NULL => head \in DOMAIN nodes
        /\ \A i \in 1..Len(ch) :
              /\ Cardinality(BackedBy(chain, ch[i])) = 1
              /\ \A k \in BackedBy(chain, ch[i]) : chain[k].ptr = ch[i]
        /\ \A i, j \in 1..Len(ch) :
              i # j => BackedBy(chain, ch[i]) \cap BackedBy(chain, ch[j]) = {}

\* A full list whose chain order is not the order of the addresses, after
\* an insertion before a node.
C18_Witness ==
    LET ch == list_chain(head, nodes)
    IN  /\ last.op = "list_insert_before"
        /\ Len(ch) = MaxNodes
        /\ \E i \in 1..(Len(ch) - 1) : ch[i] > ch[i + 1]

-----------------------------------------------------------------------------
(* C16: list_insert called while no free descriptor of the pool is large   *)
(* enough for a node does not fault: it returns to its caller with a       *)
(* report of the exhaustion, the list as it was and list_mutex released.   *)

C16_InsertExhausted ==
    [][\A data \in Payloads :
          ( /\ last'.op = "list_insert"
            /\ memory_pool # NULL
            /\ FreeFits(chain, NodeSize) = {}
            /\ list_insert(data) )
          => /\ ~fault'
             /\ last'.ret # NoValue
             /\ head' = head /\ nodes' = nodes
             /\ ~list_mutex'
      ]_vars

-----------------------------------------------------------------------------
(* C17: list_insert_after(NULL, value) does nothing: it does not fault,    *)
(* the list and the descriptor chain are as before (no block is left       *)
(* allocated), and list_mutex is released.                                 *)

C17_InsertAfterNull ==
    [][\A data \in Payloads :
          ( /\ last'.op = "list_insert_after"
            /\ memory_pool # NULL
            /\ list_insert_after(NULL, data) )
          => /\ ~fault'
             /\ head' = head /\ nodes' = nodes
             /\ chain' = chain
             /\ ~list_mutex'
      ]_vars

-----------------------------------------------------------------------------
(* C19: after any calls of list_insert and list_delete the used            *)
(* descriptors are those of the nodes on the chain from head, one each:    *)
(* their addresses are the nodes' addresses and their number is what       *)
(* list_count_nodes returns; with every node deleted none is used.         *)

C19_UsedAreNodes ==
    LET ch   == list_chain(head, nodes)
        used == {k \in 1..Len(chain) : chain[k].free = 0}
    IN  /\ {chain[k].ptr : k \in used} = {ch[i] : i \in 1..Len(ch)}
        /\ Cardinality(used) = count_nodes(head, nodes)
        /\ head = NULL => used = {}

-----------------------------------------------------------------------------
(* C20: list_display and list_display_range(start, end), on any list the   *)
(* calls can build and on the empty list, print the payloads of the nodes  *)
(* from start (head when start is NULL) to end (the last node when end is  *)
(* NULL), each once and in chain order, do not fault, and change neither   *)
(* the list nor the allocator's state.                                     *)

C20_DisplayRange ==
    [][\A start_node, end_node \in ListRefs :
          LET ch == list_chain(head, nodes)
              si == IF start_node = NULL THEN 1 ELSE IndexOf(ch, start_node)
              ei == IF end_node = NULL THEN Len(ch) ELSE IndexOf(ch, end_node)
          IN  ( /\ last'.op \in {"list_display", "list_display_range"}
                /\ memory_pool # NULL
                /\ si <= ei + 1
                /\ \/ list_display_range(start_node, end_node)
                   \/ (start_node = NULL /\ end_node = NULL /\ list_display) )
              => /\ ~fault'
                 /\ out' = Bracketed(SubSeq(list_values(head, nodes), si, ei))
                 /\ UNCHANGED <<head, nodes, memory_pool, chain, mem, live>>
      ]_vars

-----------------------------------------------------------------------------
(* C11: in no interleaving of threads are two of them inside allocator     *)
(* functions (mem_init, mem_alloc, mem_free, mem_resize, mem_deinit) at    *)
(* the same time, past the function's first and before its last access to  *)
(* memory_pool or the descriptor chain: each of the five holds             *)
(* memory_mutex from before its first to after its last access.            *)

C11_OneInAllocator ==
    \A t, u \in Threads : (InAllocator(t) /\ InAllocator(u)) => t = u


(* C12: whatever the threads call, a thread that requests list_mutex holds *)
(* no mutex, a thread that requests memory_mutex does not hold it, a       *)
(* thread that has returned holds none, each mutex has at most one holder, *)
(* and every thread that waits for a mutex waits for one that a running    *)
(* thread will release: no deadlock.                                       *)
C12_LockOrder ==
    ~fault =>
        /\ list_mutex = (\E t \in Threads : "list_mutex" \in threads[t].held)
        /\ memory_mutex = (\E t \in Threads : "memory_mutex" \in threads[t].held)
        /\ \A t, u \in Threads :
              threads[t].held \cap threads[u].held # {} => t = u
        /\ \A t \in Threads :
              /\ threads[t].pc = "list_lock" => threads[t].held = {}
              /\ threads[t].pc = "mem_lock" => "memory_mutex" \notin threads[t].held
              /\ threads[t].pc = "idle" => threads[t].held = {}
              /\ Blocked(t) => Released(t)

\* One thread is inside list_cleanup's mem_free with both mutexes, the
\* other waits for list_mutex.
C12_Witness ==
    \E t, u \in Threads :
        /\ in(t, "list_cleanup", "mem_body")
        /\ threads[t].held = {"list_mutex", "memory_mutex"}
        /\ threads[t].node # NULL
        /\ threads[u].pc = "list_lock"
        /\ Blocked(u)


(* C13: once every thread has returned from its list_insert calls, the     *)
(* list holds one node for each call that was issued since list_init, and  *)
(* list_count_nodes returns that number, whatever the interleaving was.    *)
C13_NoLostInsert ==
    (AllIdle /\ issued.only) =>
        /\ count_nodes(head, nodes) = Len(issued.vals)
        /\ last.op = "list_count_nodes" => last.ret = {Len(issued.vals)}

\* list_count_nodes has been read after MaxNodes calls of list_insert.
C13_Witness ==
    /\ AllIdle
    /\ issued.only
    /\ last.op = "list_count_nodes"
    /\ Len(issued.vals) = MaxNodes
    /\ last.ret = {MaxNodes}

=============================================================================
